---- MODULE Spec2Model ----
(***************************************************************************)
(* Layout and pagination of docs/generate_report_pdf.py.                   *)
(*                                                                         *)
(* The script drives an FPDF canvas (A4, millimetres) through a cover page *)
(* and seven numbered sections.  The model keeps the canvas state that     *)
(* decides the layout (page number and draw cursor) and replays the script *)
(* one builder call at a time.  All lengths are in HALF MILLIMETRES, so    *)
(* that every length of the script (5.5, 4.5, 6.5, 0.5, 1.5 mm ...) is an  *)
(* integer: 297 mm = 594, 5.5 mm = 11.                                      *)
(*                                                                         *)
(* The canvas primitives (add_page, cell, multi_cell, ln, rect, set_xy)    *)
(* are those of the fpdf2 library the script imports; they are modelled by *)
(* what they do to the page number and the cursor, as configured by        *)
(* PentestReport.__init__ and PentestReport.header.                        *)
(*                                                                         *)
(* Three smaller specifications share the variables: SpecBar (score_bar   *)
(* alone), SpecStyle (the colour lookups alone) and SpecServer (the tools  *)
(* write_file and manage_packages of docker/kali/server.py).               *)
(***************************************************************************)
EXTENDS Integers, Sequences, FiniteSets, TLC

VARIABLES
    pdf,        \* the canvas: [page, x, y, ev]; ev = what the last call did
    section,    \* the section being assembled
    ip,         \* index of the next builder call in the section's program
    prevLast,   \* page of the last element painted by the previous section
    secFirst,   \* page of the first element this section painted (0: none yet)
    secLast,    \* page of the last element this section painted (0: none yet)
    visited,    \* the sections entered so far, in order
    nrows,      \* number of data rows of the result table
    rowsDone,   \* data rows painted so far
    thCells,    \* table header cells painted so far
    tdCells,    \* table data cells painted so far
    cardsDone,  \* compliance cards painted so far
    snipsDone,  \* remediation snippets painted so far
    PATTERNS,   \* llm["anti_patterns"], read when section 7 partitions it
    positives,  \* the positive entries of PATTERNS, in input order
    negatives,  \* the negative entries of PATTERNS, in input order
    apIdx,      \* index of the next anti-pattern card in its group
    apCards,    \* the entries whose card was painted (by position in PATTERNS)
    bars,       \* overlay rectangles painted by score_bar (SpecBar only)
    serialized, \* number of pdf.output() calls
    failed,     \* the key of the KeyError that ended the build ("": none)
    styled,     \* badges and card headers styled so far (SpecStyle only)
    counts,     \* the counts painted in the boxes of the cover
    findings,   \* the severities of the findings list of section 4
    files,      \* server: the files written so far, by resolved path
    dirs,       \* server: the directories created so far, by resolved path
    log,        \* server: number of writes appended to installs.log
    cmds,       \* server: number of commands handed to the shell
    call        \* server: the last tool call and what it did

vars == <<pdf, section, ip, prevLast, secFirst, secLast, visited, nrows, rowsDone,
          thCells, tdCells, cardsDone, snipsDone, PATTERNS, positives, negatives,
          apIdx, apCards, bars, serialized, failed, styled, counts,
          findings, files, dirs, log, cmds, call>>

----------------------------------------------------------------------------
(* Page geometry, in half millimetres.                                     *)

PageH   == 594      \* A4 portrait height, 297 mm
PageW   == 420      \* A4 portrait width, 210 mm
BMargin == 40       \* set_auto_page_break(auto=True, margin=20)
LMargin == 36       \* set_margins(18, 18, 18)
TMargin == 36
RMargin == 36
BandH   == 20       \* header(): rect(0, 0, 210, 10)
HeaderTextY == 3    \* header(): set_xy(0, 1.5)
HeaderLn    == 8    \* header(): ln(4)
FooterUp    == 28   \* footer(): set_y(-14)

\* fpdf2: page_break_trigger = h - b_margin
Trigger == PageH - BMargin
\* fpdf2: epw = w - l_margin - r_margin
Epw == PageW - LMargin - RMargin

----------------------------------------------------------------------------
(* Canvas primitives.  An event records what was painted or decided:       *)
(* [op, k, page, y, h] with op one of add_page, band, footer, cell, line,  *)
(* rect, measure, check, cursor; k says what the event belongs to.         *)

Event(op, k, page, y, h) == [op |-> op, k |-> k, page |-> page, y |-> y, h |-> h]

Log(c, op, k, y, h) == [c EXCEPT !.ev = Append(@, Event(op, k, c.page, y, h))]

Reset(c) == [c EXCEPT !.ev = <<>>]

\* Where a builder leaves the cursor when it returns.
Placed(c, k) == Log(c, "cursor", k, c.y, 0)

SetXY(c, x, y) == [c EXCEPT !.x = x, !.y = y]

SetX(c, x) == [c EXCEPT !.x = x]

\* FPDF.ln(h): back to the left margin, down by h.  No page-break check.
Ln(c, h) == [c EXCEPT !.x = LMargin, !.y = @ + h]

\* FPDF.rect: a shape painted where it is told, whatever the page limits.
Rect(c, k, y, h) == Log(c, "rect", k, y, h)

\* A cell painted at the cursor without a page-break check
\* (w = 0: up to the right margin; nl: new_x=LMARGIN, new_y=NEXT).
PaintCell(c, k, w, h, nl) ==
    LET ww == IF w = 0 THEN PageW - RMargin - c.x ELSE w
        c1 == Log(c, "cell", k, c.y, h)
    IN  IF nl THEN [c1 EXCEPT !.x = LMargin, !.y = c.y + h]
              ELSE [c1 EXCEPT !.x = c.x + ww]

\* PentestReport.footer, run on the page being left.
Footer(c) ==
    IF c.page = 0 THEN c
    ELSE Log(c, "footer", "", PageH - FooterUp, 10)

\* PentestReport.header, run on the page just begun: nothing on page 1,
\* else the band, the title cell at y = 1.5 and ln(4).
Header(c) ==
    IF c.page = 1 THEN c
    ELSE LET c1 == Log(c, "band", "", 0, BandH)
             c2 == PaintCell(SetXY(c1, 0, HeaderTextY), "header", 0, 12, FALSE)
         IN  Ln(c2, HeaderLn)

\* FPDF.add_page: footer of the old page, next page, cursor to the top
\* left margin, then header(); the cursor stays where header() leaves it.
\* The event keeps the cursor after the call and (as h) the page before it.
AddPage(c, k) ==
    LET c1 == Footer(c)
        c2 == [c1 EXCEPT !.page = @ + 1, !.x = LMargin, !.y = TMargin]
        c3 == Header(c2)
    IN  Log(c3, "add_page", k, c3.y, c.page)

\* FPDF.will_page_break(h), with auto page break on.
WillPageBreak(c, h) == c.y + h > Trigger

\* FPDF._perform_page_break: add_page, x restored, y not.
PerformPageBreak(c) == [AddPage(c, "auto") EXCEPT !.x = c.x]

\* FPDF.cell: automatic page break if the cell does not fit, then paint.
Cell(c, k, w, h, nl) ==
    PaintCell(IF WillPageBreak(c, h) THEN PerformPageBreak(c) ELSE c, k, w, h, nl)

\* Lines of height lh that pass will_page_break from the cursor on.
LinesFit(c, lh) == IF WillPageBreak(c, lh) THEN 0 ELSE (Trigger - c.y) \div lh

\* m lines of height lh painted one under the other from the cursor, none
\* of which breaks the page.
Stack(c, op, k, lh, m) ==
    [c EXCEPT !.ev = @ \o [i \in 1..m |-> Event(op, k, c.page, c.y + (i - 1) * lh, lh)],
              !.y = @ + m * lh]

\* n lines of height lh, each one checked for a page break of its own
\* before it is painted (a page at a time: the lines that fit, then, if
\* lines are left, the page break the next line triggers).
RECURSIVE Flow(_, _, _, _, _)
Flow(c, op, k, lh, n) ==
    LET fit == LinesFit(c, lh)
    IN  IF n <= fit THEN Stack(c, op, k, lh, n)
        ELSE Flow(PerformPageBreak(Stack(c, op, k, lh, fit)), op, k, lh, n - fit)

\* FPDF.multi_cell painting n wrapped lines of height lh: each line is
\* checked for a page break of its own; new_x=RIGHT, new_y=NEXT.
MultiCellLines(c, k, lh, n) == Flow(c, "line", k, lh, n)

MultiCell(c, k, w, lh, n) ==
    LET ww == IF w = 0 THEN PageW - RMargin - c.x ELSE w
        c1 == MultiCellLines(c, k, lh, n)
    IN  [c1 EXCEPT !.x = c.x + ww]

----------------------------------------------------------------------------
(* Text wrapping.  A text is the sequence of the rendered widths of its    *)
(* words; multi_cell fills each line greedily with as many words as fit in *)
(* the cell width less the cell margin on both sides.                      *)

CMargin == 2    \* fpdf2 cell margin, 1 mm
SpaceW  == 2    \* width of a space in Sans 9 pt, 1 mm

RECURSIVE WrapLines(_, _, _, _)
WrapLines(words, i, cur, maxw) ==
    IF i > Len(words) THEN 1
    ELSE IF cur = 0 THEN WrapLines(words, i + 1, words[i], maxw)
    ELSE IF cur + SpaceW + words[i] <= maxw
         THEN WrapLines(words, i + 1, cur + SpaceW + words[i], maxw)
         ELSE 1 + WrapLines(words, i + 1, words[i], maxw)

\* Number of lines multi_cell(w, ...) breaks `words` into.
Wrap(words, w) == WrapLines(words, 1, 0, w - 2 * CMargin)

----------------------------------------------------------------------------
(* Element builders of PentestReport.                                      *)

h1(c) == Placed(Ln(Cell(Ln(c, 8), "h1", 0, 18, TRUE), 4), "h1")

h2(c) == Placed(Ln(Cell(Ln(c, 6), "h2", 0, 14, TRUE), 2), "h2")

h3(c) == Placed(Cell(Ln(c, 4), "h3", 0, 12, TRUE), "h3")

\* body(txt, indent): txt wraps to n lines of 5.5 mm
body(c, n, indent) ==
    Placed(Ln(MultiCell(SetX(c, LMargin + indent), "body", 0, 11, n), 2), "body")

kv_row(c) == Placed(Cell(Cell(c, "kv", 96, 13, FALSE), "kv", 0, 13, TRUE), "kv_row")

\* badge(txt, fg, bg): tw = get_string_width(txt)
badge(c, tw) == Cell(c, "badge", tw + 12, 11, FALSE)

divider(c) == Ln(Ln(c, 4), 6)

\* bullet(txt, indent=4): txt wraps to n lines
bullet(c, n) ==
    LET x0 == LMargin + 8
        c1 == Cell(SetX(c, x0), "bullet", 8, 11, FALSE)
    IN  MultiCell(SetX(c1, x0 + 10), "bullet", Epw - 8 - 10, 11, n)

RECURSIVE bullets(_, _, _)
bullets(c, items, i) ==
    IF i > Len(items) THEN c ELSE bullets(bullet(c, items[i]), items, i + 1)

\* the colour thresholds with the first comparison off by one
BarColor_Inclusive(score) ==
    IF score <= 50 THEN "C_RED" ELSE IF score < 70 THEN "C_YELLOW" ELSE "C_GREEN"

\* score_bar: the fill colour and the label colour
BarColor(score) ==
    IF score < 50 THEN "C_RED" ELSE IF score < 70 THEN "C_YELLOW" ELSE "C_GREEN"

LabelColor(score) == IF score < 50 THEN "C_WHITE" ELSE "C_DARK"

\* score_bar: fill_w = (score / 100) * width, kept exact as 100 * fill_w
FillW100(score, width) == score * width

\* The overlay rectangle score_bar paints: [score, width, fill100, color]
BarRect(score, width) ==
    [score |-> score, width |-> width, fill100 |-> FillW100(score, width),
     color |-> BarColor(score), label |-> LabelColor(score)]

\* score_bar(score, width, height): background, overlay, label cell.
\* The label's x is on the half-millimetre grid here; it decides nothing.
score_bar(c, score, width, height) ==
    LET x  == c.x
        y  == c.y
        c1 == Rect(c, "bar_bg", y, height)
        c2 == Rect(c1, "bar_fill", y, height)
        c3 == SetXY(c2, x + (FillW100(score, width) \div 100) - 28, y)
    IN  Cell(c3, "bar_label", 28, height, FALSE)

\* for line in lines: set_x(x); cell(w, 4.5, line, new_x=LMARGIN, new_y=NEXT)
CodeLines(c, x, w, n) == SetX(Flow(SetX(c, x), "cell", "code_line", 9, n), LMargin)

\* code_block(code, lang): nl = len(code.split("\n")), lang = tag present
CodeHeight(nl) == nl * 9 + 8 * 2

code_block(c, nl, lang) ==
    LET height    == CodeHeight(nl)
        available == PageH - BMargin - c.y
        c1 == Log(c, "check", "code", c.y, height)
        c2 == IF height > available THEN AddPage(c1, "code") ELSE c1
        x0 == c2.x
        y0 == c2.y
        w  == Epw
        c3 == Rect(c2, "code", y0, height)
        c4 == IF lang THEN Cell(SetXY(c3, x0 + w - 20 - 8, y0 + 3), "lang", 0, 6, FALSE)
                      ELSE c3
        c5 == CodeLines(SetXY(c4, x0 + 8, y0 + 8), x0 + 8, w - 16, nl)
    IN  Placed(SetXY(c5, x0, y0 + height + 4), "code")

----------------------------------------------------------------------------
(* The script as data: per section, the builder calls in source order.     *)
(* An instruction is [op, n, m]; for body, n is the number of lines the    *)
(* literal text wraps to (DejaVu Sans 9.5 pt on the 174 mm text width) and *)
(* m its indent; for ln, n is the gap.                                     *)

I(op, n, m) == [op |-> op, n |-> n, m |-> m]

Do(op) == I(op, 0, 0)

Times(k, instr) == [i \in 1..k |-> instr]

SectionOrder ==
    <<"Cover", "Overview", "Policy", "ResultSummary", "FindingsDetail",
      "Suggestions", "RemediationCode", "AntiPatterns", "Done">>

SectionSet == {SectionOrder[i] : i \in 1..Len(SectionOrder)}

IndexOf(s) == CHOOSE i \in 1..Len(SectionOrder) : SectionOrder[i] = s

CoverProg ==
    <<Do("add_page"), Do("cover_banner")>> \o Times(5, Do("cover_row"))
    \o <<Do("glance"), Do("cover_note")>>

OverviewProg ==
    <<Do("add_page"), Do("h1"), Do("h2")>> \o Times(5, Do("kv_row"))
    \o <<Do("h2")>> \o Times(5, Do("kv_row"))
    \o <<Do("h2")>> \o Times(3, Do("kv_row"))

PolicyProg ==
    <<Do("h1"), Do("h2"), I("body", 4, 0), Do("h2")>> \o Times(4, Do("kv_row"))
    \o <<Do("h2")>> \o Times(4, Do("level_row"))

ResultSummaryProg ==
    <<Do("add_page"), Do("h1"), I("body", 2, 0), Do("table_header"),
      Do("table_rows"), I("ln", 8, 0), I("body", 2, 0)>>

\* findings[i]: lines of address, procedure, risk, fix
FindingLines == <<<<1, 5, 2, 2>>, <<1, 2, 2, 2>>, <<1, 5, 2, 2>>, <<1, 2, 2, 2>>>>

FindingProg(idx) ==
    <<Do("h2"), I("sev_line", idx, 0),
      Do("h3"), I("body", FindingLines[idx][1], 4),
      Do("h3"), I("body", FindingLines[idx][2], 4),
      Do("h3"), I("body", FindingLines[idx][3], 4),
      Do("h3"), I("body", FindingLines[idx][4], 4)>>
    \o (IF idx < Len(FindingLines) THEN <<Do("divider")>> ELSE <<>>)

FindingsDetailProg ==
    <<Do("add_page"), Do("h1"), Do("findings")>>
    \o FindingProg(1) \o FindingProg(2) \o FindingProg(3) \o FindingProg(4)

SuggestionsProg ==
    <<Do("add_page"), Do("h1"), Do("h2"), I("body", 4, 0), Do("h2"),
      Do("rec_title"), I("body", 2, 8), Do("rec_title"), I("body", 2, 8),
      Do("rec_title"), I("body", 2, 8), Do("rec_title"), I("body", 2, 8),
      Do("h2"), Do("compliance_cards")>>

RemediationCodeProg ==
    <<Do("add_page"), Do("h1"), I("body", 2, 0), Do("snippets")>>

AntiPatternsProg ==
    <<Do("add_page"), Do("h1"), I("body", 2, 0), I("ln", 4, 0), Do("partition"),
      Do("positive_head"), Do("positive_cards"),
      Do("negative_head"), Do("negative_cards")>>

DoneProg == <<Do("output")>>

Prog(s) ==
    CASE s = "Cover"           -> CoverProg
      [] s = "Overview"        -> OverviewProg
      [] s = "Policy"          -> PolicyProg
      [] s = "ResultSummary"   -> ResultSummaryProg
      [] s = "FindingsDetail"  -> FindingsDetailProg
      [] s = "Suggestions"     -> SuggestionsProg
      [] s = "RemediationCode" -> RemediationCodeProg
      [] s = "AntiPatterns"    -> AntiPatternsProg
      [] OTHER                 -> DoneProg

Running == failed = "" /\ ip <= Len(Prog(section))

Cur == Prog(section)[ip]

At(op) == Running /\ Cur.op = op

----------------------------------------------------------------------------
(* The two card builders of the script.                                    *)

\* Section 5.3, the body of `for cf in COMPLIANCE`.  cf.score is the value
\* after `cf.get("score", 0) or 0`; cf.items holds the wrapped line count of
\* each failing item; cf.articles the wrapped line count of the references
\* line (0: no articles).
compliance_card(c, cf) ==
    LET c1  == Ln(c, 4)
        x0  == c1.x
        y0  == c1.y
        c2  == Rect(c1, "compliance", y0, 14)
        c3  == Cell(SetXY(c2, x0 + 4, y0 + 1), "cc_reg", 200, 12, FALSE)
        c4  == Cell(SetXY(c3, x0 + 260, y0 + 1), "cc_label", 88, 12, FALSE)
        c5  == SetXY(c4, x0, y0 + 16)
        c6  == Cell(SetX(c5, x0 + 4), "cc_score", 36, 10, FALSE)
        c7  == score_bar(SetX(c6, x0 + 40), cf.score, 200, 10)
        c8  == Ln(c7, 14)
        c9  == Ln(bullets(c8, cf.items, 1), 2)
        c10 == IF cf.articles > 0
               THEN MultiCell(SetX(c9, LMargin + 8), "cc_articles", 0, 9, cf.articles)
               ELSE c9
    IN  Placed(Ln(c10, 4), "compliance")

MeasureW == 316     \* multi_cell(158, 5.5, detail, dry_run=True, output="LINES")
PaintW   == 328     \* multi_cell(164, 5.5, detail)

\* a dry run at twice the painted width
MeasuredLines_Wide(detail) == Wrap(detail, 2 * PaintW)

\* len(lines) of the dry run
MeasuredLines(detail) == Wrap(detail, MeasureW)

\* the lines multi_cell(164, ...) paints
PaintedLines(detail) == Wrap(detail, PaintW)

\* card_h = 7 + len(lines) * 5.5 + 4
CardH(lines) == 14 + lines * 11 + 8

\* the space check gone wrong: the height is held against the whole page,
\* not against what is left of it
CardNeedsPage_NoCursor(c, card_h) == card_h > PageH - BMargin

\* the space check of the anti-pattern loops
CardNeedsPage(c, card_h) == c.y + card_h > PageH - BMargin

\* Section 7, the body of `for p in positives` / `for p in negatives`
\* (k = "positive" / "negative"); the dry run leaves the canvas as it was.
ap_card(c, k, detail) ==
    LET lines  == MeasuredLines(detail)
        c1     == Log(c, "measure", k, c.y, lines)
        card_h == CardH(lines)
        c2     == Log(c1, "check", k, c1.y, card_h)
        c3     == IF CardNeedsPage(c2, card_h) THEN AddPage(c2, k) ELSE c2
        x0     == c3.x
        y0     == c3.y
        c4     == Rect(c3, k, y0, card_h)
        c5     == Cell(SetXY(c4, x0 + 6, y0 + 4), "ap_title", 0, 11, TRUE)
        c6     == MultiCell(SetXY(c5, x0 + 10, c5.y), "ap_body", PaintW, 11,
                            PaintedLines(detail))
    IN  Placed(SetXY(c6, x0, y0 + card_h + 6), k)

----------------------------------------------------------------------------
(* Inputs.                                                                 *)

TableRows == 4      \* the rows literal of section 3
MaxRows   == 40     \* a longer table, to make the row loop cross a page
MaxCards  == 2      \* compliance entries per build
MaxItemLines == 19  \* wrapped lines of the longest failing item
MaxSnips  == 2      \* remediation snippets per build
MidCode   == 30     \* lines of a code body that fills half a page
MaxCode   == 60     \* lines of a code body taller than a page
MaxPatterns == 2    \* anti-pattern entries per build
MidWords  == 25     \* words of a detail text that fills half a page
MaxWords  == 50     \* words of a detail text taller than a page
MaxScore  == 120    \* scores run from -Under to MaxScore
Under     == 20

RowCounts == {TableRows, MaxRows}

CompScores == {0, 35, 92, 150}

CompEntries ==
    [score : CompScores,
     items : {<<>>, <<1, 2>>, <<MaxItemLines>>},
     articles : {0, 1}]

Snippets == [desc : {1, 2}, code : {1, MidCode, MaxCode}, lang : BOOLEAN]

Rep(w, n) == [i \in 1..n |-> w]

\* detail texts: one short word; words of 80 mm, of which one fits a line
\* of the dry run and two fit a painted line
Details == {Rep(60, 1), Rep(160, MidWords), Rep(160, MaxWords)}

PatternTypes == {"positive", "negative", "neutral"}

\* no tool of the server was called yet
NoCall ==
    [n |-> 0, tool |-> "", action |-> "", name |-> <<>>, fn |-> <<>>, ret |-> "",
     ran |-> 0, logged |-> 0, wrote |-> {}]

\* counts = {"Critical": 0, "High": 0, "Medium": 0, "Low": 0}
NoCounts == [sev \in {"Critical", "High", "Medium", "Low"} |-> 0]

\* counts = {"Critical": 2, "High": 1, "Medium": 1, "Low": 0}
MockCounts ==
    [sev \in {"Critical", "High", "Medium", "Low"} |->
        CASE sev = "Critical" -> 2 [] sev = "High" -> 1
          [] sev = "Medium" -> 1 [] OTHER -> 0]

\* the severities of the findings literal of section 4, and a second list of
\* the same length with other severities
FindingLists ==
    {<<"Critical", "Critical", "High", "Medium">>,
     <<"Critical", "High", "Medium", "Low">>}

\* what the scan of llm["executive_summary"] may count for one severity
MaxParsed == 2

AllKeys == {"type", "title", "detail"}

\* an entry with all its keys, of any type and detail; an entry that has
\* nothing but its type; an entry without a type
PatternEntries ==
    [type : PatternTypes, detail : Details, has : {AllKeys}]
        \cup [type : {"positive", "neutral"}, detail : {<<>>}, has : {{"type"}}]
        \cup [type : {""}, detail : {Rep(60, 1)}, has : {{"title", "detail"}}]

PatternLists == UNION {[1..n -> PatternEntries] : n \in 0..MaxPatterns}

ScoreRange == (0 - Under)..MaxScore

BarWidths == {120, 200}     \* score_bar's default width=60 and the call's 100

----------------------------------------------------------------------------
(* The build.                                                              *)

tableVars == <<nrows, rowsDone>>
loopVars  == <<cardsDone, snipsDone>>
apVars    == <<PATTERNS, positives, negatives, apIdx, apCards>>
srvVars   == <<files, dirs, log, cmds, call>>
unitVars  == <<styled, srvVars>>
findVars  == <<counts, findings>>

\* pdf = PentestReport(): no page yet
Init ==
    /\ pdf = [page |-> 0, x |-> LMargin, y |-> 0, ev |-> <<>>]
    /\ section = "Cover"
    /\ ip = 1
    /\ prevLast = 0
    /\ secFirst = 0
    /\ secLast = 0
    /\ visited = <<"Cover">>
    /\ nrows = 0
    /\ rowsDone = 0
    /\ thCells = 0
    /\ tdCells = 0
    /\ cardsDone = 0
    /\ snipsDone = 0
    /\ PATTERNS = <<>>
    /\ positives = <<>>
    /\ negatives = <<>>
    /\ apIdx = 0
    /\ apCards = <<>>
    /\ bars = <<>>
    /\ serialized = 0
    /\ failed = ""
    /\ styled = <<>>
    /\ counts = NoCounts
    /\ findings = <<>>
    /\ files = {}
    /\ dirs = {}
    /\ log = 0
    /\ cmds = 0
    /\ call = NoCall

PaintOps == {"cell", "line", "rect"}

\* what the call painted for the document body (not the running header)
Painted(c) == SelectSeq(c.ev, LAMBDA e : e.op \in PaintOps /\ e.k # "header")

\* the cells of kind k the call painted
CellsOf(c, k) == Len(SelectSeq(c.ev, LAMBDA e : e.op = "cell" /\ e.k = k))

\* The call is over: the canvas is c and the script goes on at index n of
\* the section's program, or at the next section when the program is over.
Step(c, n) ==
    LET ps    == Painted(c)
        first == IF secFirst = 0 /\ ps # <<>> THEN ps[1].page ELSE secFirst
        last  == IF ps # <<>> THEN ps[Len(ps)].page ELSE secLast
    IN  /\ pdf' = c
        /\ failed' = failed
        /\ UNCHANGED unitVars
        /\ thCells' = thCells + CellsOf(c, "th")
        /\ tdCells' = tdCells + CellsOf(c, "td")
        /\ IF n <= Len(Prog(section)) \/ section = "Done"
           THEN /\ section' = section
                /\ ip' = n
                /\ visited' = visited
                /\ prevLast' = prevLast
                /\ secFirst' = first
                /\ secLast' = last
           ELSE /\ section' = SectionOrder[IndexOf(section) + 1]
                /\ ip' = 1
                /\ visited' = Append(visited, SectionOrder[IndexOf(section) + 1])
                /\ prevLast' = last
                /\ secFirst' = 0
                /\ secLast' = 0

\* The call raised KeyError(key) with the canvas at c: the script is over.
Raise(key, c) ==
    /\ failed' = key
    /\ pdf' = c
    /\ UNCHANGED <<section, ip, prevLast, secFirst, secLast, visited, tableVars,
                   thCells, tdCells, loopVars, apVars, bars, serialized, unitVars,
                   findVars>>

\* the keys the script reads by subscript before it builds the canvas
LoadKeys ==
    {"target", "session_id", "completed_at",
     "remediation_snippets", "compliance_findings", "anti_patterns"}

\* meta[...] / llm[...] at the top of the script, with a key missing
LoadKeyError ==
    /\ section = "Cover" /\ ip = 1 /\ failed = ""
    /\ \E key \in LoadKeys : Raise(key, pdf)

\* A builder call that reads no input and keeps no count.
Simple(op, c) ==
    /\ At(op)
    /\ Step(c, ip + 1)
    /\ bars' = <<>>
    /\ UNCHANGED <<tableVars, loopVars, apVars, serialized, findVars>>

AddPageStep == Simple("add_page", AddPage(Reset(pdf), "explicit"))

\* Cover page: banner, title cells, accent line, target, then the meta table
CoverBanner ==
    Simple("cover_banner",
        LET c1 == Rect(Reset(pdf), "banner", 0, 110)
            c2 == Cell(SetXY(c1, 36, 24), "cover", 0, 20, FALSE)
            c3 == Cell(SetXY(c2, 36, 48), "cover", 0, 16, FALSE)
            c4 == Rect(c3, "accent", 68, 3)
            c5 == Cell(SetXY(c4, 36, 74), "cover", 0, 16, FALSE)
        IN  Ln(SetXY(c5, 0, 120), 8))

cover_row(c) == Cell(Cell(c, "cover_row", 100, 14, FALSE), "cover_row", 0, 14, TRUE)

CoverRow == Simple("cover_row", cover_row(Reset(pdf)))

\* one box of "Findings at a Glance"
GlanceBox(c) ==
    LET x0 == c.x
        y0 == c.y
        c1 == Rect(c, "box", y0, 40)
        c2 == Cell(SetXY(c1, x0, y0 + 4), "box", 76, 20, FALSE)
        c3 == Cell(SetXY(c2, x0, y0 + 24), "box", 76, 12, FALSE)
    IN  SetXY(c3, x0 + 84, y0)

\* llm["executive_summary"] with the key missing: the heading is painted,
\* the boxes are not
GlanceKeyError ==
    /\ At("glance")
    /\ Raise("executive_summary",
             Ln(Cell(Ln(Reset(pdf), 16), "glance", 0, 12, TRUE), 4))

\* the counts the boxes show: the scan of the summary fills counts, the
\* next statement replaces it by the fixed dictionary
glance_counts(parsed) == MockCounts

Glance ==
    /\ At("glance")
    /\ \E parsed \in [{"Critical", "High", "Medium", "Low"} -> 0..MaxParsed] :
          counts' = glance_counts(parsed)
    /\ Step(LET c1 == Ln(Cell(Ln(Reset(pdf), 16), "glance", 0, 12, TRUE), 4)
            IN  Ln(GlanceBox(GlanceBox(GlanceBox(GlanceBox(c1)))), 52),
            ip + 1)
    /\ bars' = <<>>
    /\ UNCHANGED <<tableVars, loopVars, apVars, serialized, findings>>

\* findings = [...]
Findings ==
    /\ At("findings")
    /\ \E fl \in FindingLists : findings' = fl
    /\ Step(Reset(pdf), ip + 1)
    /\ bars' = <<>>
    /\ UNCHANGED <<tableVars, loopVars, apVars, serialized, counts>>

CoverNote == Simple("cover_note", Cell(Reset(pdf), "note", 0, 10, FALSE))

H1 == Simple("h1", h1(Reset(pdf)))

H2 == Simple("h2", h2(Reset(pdf)))

H3 == Simple("h3", h3(Reset(pdf)))

Body == Simple("body", body(Reset(pdf), Cur.n, Cur.m))

KvRow == Simple("kv_row", kv_row(Reset(pdf)))

\* a row of 2.3 Vulnerability Level Definition
LevelRow ==
    Simple("level_row",
        Cell(Cell(Cell(Reset(pdf), "level", 80, 13, FALSE), "level", 60, 13, FALSE),
             "level", 0, 13, TRUE))

LnStep == Simple("ln", Ln(Reset(pdf), Cur.n))

\* severity and CVSS line of a finding (the badge text is 14 mm wide)
SevLine ==
    Simple("sev_line",
        LET c1 == Cell(Reset(pdf), "sev", 40, 12, FALSE)
            c2 == badge(Log(c1, "style", findings[Cur.n], c1.y, 0), 28)
            c3 == Cell(c2, "sev", 24, 12, FALSE)
        IN  Ln(Cell(c3, "sev", 0, 12, TRUE), 2))

Divider == Simple("divider", divider(Reset(pdf)))

RecTitle == Simple("rec_title", Cell(Reset(pdf), "rec", 0, 12, TRUE))

\* Section 3, table header: ln(2), five header cells of 7 mm, ln()
table_header(c) ==
    LET c0 == Ln(c, 4)
        c1 == Cell(c0, "th", 20, 14, FALSE)
        c2 == Cell(c1, "th", 140, 14, FALSE)
        c3 == Cell(c2, "th", 136, 14, FALSE)
        c4 == Cell(c3, "th", 28, 14, FALSE)
        c5 == Cell(c4, "th", 24, 14, FALSE)
    IN  Ln(c5, 14)

\* a data row whose last cell is twice as high as the others
table_row_TallCell(c) ==
    LET c1 == Cell(c, "td", 20, 13, FALSE)
        c2 == Cell(c1, "td", 140, 13, FALSE)
        c3 == Cell(c2, "td", 136, 13, FALSE)
        c4 == Cell(c3, "td", 28, 13, FALSE)
    IN  Cell(c4, "td", 24, 26, TRUE)

\* Section 3, one data row: five cells of 6.5 mm, the last one ends the line
table_row(c) ==
    LET c1 == Cell(c, "td", 20, 13, FALSE)
        c2 == Cell(c1, "td", 140, 13, FALSE)
        c3 == Cell(c2, "td", 136, 13, FALSE)
        c4 == Cell(c3, "td", 28, 13, FALSE)
    IN  Cell(c4, "td", 24, 13, TRUE)

\* The rows literal has TableRows entries; the loop is also run on a longer
\* list, which is what a table that outgrows its page needs.
TableHeader ==
    /\ At("table_header")
    /\ \E n \in RowCounts : nrows' = n
    /\ rowsDone' = 0
    /\ Step(table_header(Reset(pdf)), ip + 1)
    /\ bars' = <<>>
    /\ UNCHANGED <<loopVars, apVars, serialized, findVars>>

TableRow ==
    /\ At("table_rows")
    /\ rowsDone < nrows
    /\ rowsDone' = rowsDone + 1
    /\ Step(table_row(Reset(pdf)), IF rowsDone + 1 = nrows THEN ip + 1 ELSE ip)
    /\ bars' = <<>>
    /\ UNCHANGED <<nrows, loopVars, apVars, serialized, findVars>>

\* for cf in COMPLIANCE: one more entry ...
ComplianceCard ==
    /\ At("compliance_cards")
    /\ cardsDone < MaxCards
    /\ \E cf \in CompEntries :
          /\ Step(compliance_card(Reset(pdf), cf), ip)
          /\ bars' = <<BarRect(cf.score, 200)>>
    /\ cardsDone' = cardsDone + 1
    /\ UNCHANGED <<tableVars, snipsDone, apVars, serialized, findVars>>

\* ... or an entry without cf["regulation"] or cf["status"] ...
ComplianceKeyError ==
    /\ At("compliance_cards")
    /\ cardsDone < MaxCards
    /\ \E key \in {"regulation", "status"} : Raise(key, Reset(pdf))

\* ... or the list is exhausted
ComplianceEnd ==
    /\ At("compliance_cards")
    /\ Step(Reset(pdf), ip + 1)
    /\ cardsDone' = 0
    /\ bars' = <<>>
    /\ UNCHANGED <<tableVars, snipsDone, apVars, serialized, findVars>>

\* Section 6, the body of `for snip in SNIPS`; sn.desc is the wrapped line
\* count of the description, sn.code the number of code lines
snippet(c, sn) ==
    LET c1 == h2(c)
        c2 == Ln(MultiCell(c1, "desc", 0, 11, sn.desc), 4)
    IN  Ln(code_block(c2, sn.code, sn.lang), 6)

Snippet ==
    /\ At("snippets")
    /\ snipsDone < MaxSnips
    /\ \E sn \in Snippets : Step(snippet(Reset(pdf), sn), ip)
    /\ snipsDone' = snipsDone + 1
    /\ bars' = <<>>
    /\ UNCHANGED <<tableVars, cardsDone, apVars, serialized, findVars>>

\* a snippet without snip["label"] (nothing painted) or without snip["code"]
\* (heading and description painted)
SnippetKeyError ==
    /\ At("snippets")
    /\ snipsDone < MaxSnips
    /\ \/ Raise("label", Reset(pdf))
       \/ \E n \in {1, 2} :
             Raise("code", Ln(MultiCell(h2(Reset(pdf)), "desc", 0, 11, n), 4))

SnippetEnd ==
    /\ At("snippets")
    /\ Step(Reset(pdf), ip + 1)
    /\ snipsDone' = 0
    /\ bars' = <<>>
    /\ UNCHANGED <<tableVars, cardsDone, apVars, serialized, findVars>>

\* the filter with its result turned round
OfType_Reversed(ps, t) ==
    LET sel == SelectSeq(ps, LAMBDA p : p.type = t)
    IN  [i \in 1..Len(sel) |-> sel[Len(sel) + 1 - i]]

\* positives = [p for p in PATTERNS if p["type"] == "positive"], and negatives
OfType(ps, t) == SelectSeq(ps, LAMBDA p : p.type = t)

\* the entries of the list, each with its position in the list
WithIds(ps) ==
    [i \in DOMAIN ps |->
        [id |-> i, type |-> ps[i].type, detail |-> ps[i].detail, has |-> ps[i].has]]

Partition ==
    /\ At("partition")
    /\ \E ps \in PatternLists :
          /\ \A i \in DOMAIN ps : "type" \in ps[i].has
          /\ PATTERNS' = WithIds(ps)
          /\ positives' = OfType(WithIds(ps), "positive")
          /\ negatives' = OfType(WithIds(ps), "negative")
    /\ apIdx' = 1
    /\ apCards' = <<>>
    /\ Step(Reset(pdf), ip + 1)
    /\ bars' = <<>>
    /\ UNCHANGED <<tableVars, loopVars, serialized, findVars>>

\* p["type"] of an entry that has no type
PartitionKeyError ==
    /\ At("partition")
    /\ \E ps \in PatternLists :
          /\ \E i \in DOMAIN ps : "type" \notin ps[i].has
          /\ Raise("type", Reset(pdf))

\* if positives: h2(...), then the cards
PositiveHead ==
    /\ At("positive_head")
    /\ IF positives # <<>>
       THEN Step(h2(Reset(pdf)), ip + 1)
       ELSE Step(Reset(pdf), ip + 2)
    /\ apIdx' = 1
    /\ bars' = <<>>
    /\ UNCHANGED <<tableVars, loopVars, PATTERNS, positives, negatives, apCards,
                   serialized, findVars>>

PositiveCard ==
    /\ At("positive_cards")
    /\ apIdx <= Len(positives)
    /\ "detail" \in positives[apIdx].has
    /\ apCards' = Append(apCards, positives[apIdx].id)
    /\ Step(ap_card(Reset(pdf), "positive", positives[apIdx].detail),
            IF apIdx = Len(positives) THEN ip + 1 ELSE ip)
    /\ apIdx' = apIdx + 1
    /\ bars' = <<>>
    /\ UNCHANGED <<tableVars, loopVars, PATTERNS, positives, negatives, serialized, findVars>>

\* if negatives: ln(4), h2(...), then the cards
NegativeHead ==
    /\ At("negative_head")
    /\ IF negatives # <<>>
       THEN Step(h2(Ln(Reset(pdf), 8)), ip + 1)
       ELSE Step(Reset(pdf), ip + 2)
    /\ apIdx' = 1
    /\ bars' = <<>>
    /\ UNCHANGED <<tableVars, loopVars, PATTERNS, positives, negatives, apCards,
                   serialized, findVars>>

NegativeCard ==
    /\ At("negative_cards")
    /\ apIdx <= Len(negatives)
    /\ "detail" \in negatives[apIdx].has
    /\ apCards' = Append(apCards, negatives[apIdx].id)
    /\ Step(ap_card(Reset(pdf), "negative", negatives[apIdx].detail),
            IF apIdx = Len(negatives) THEN ip + 1 ELSE ip)
    /\ apIdx' = apIdx + 1
    /\ bars' = <<>>
    /\ UNCHANGED <<tableVars, loopVars, PATTERNS, positives, negatives, serialized, findVars>>

\* p["detail"] of an entry that has no detail: the dry run is not reached
CardKeyError ==
    /\ \/ At("positive_cards") /\ apIdx <= Len(positives)
          /\ "detail" \notin positives[apIdx].has
       \/ At("negative_cards") /\ apIdx <= Len(negatives)
          /\ "detail" \notin negatives[apIdx].has
    /\ Raise("detail", Reset(pdf))

\* pdf.output(out_path): the last page gets its footer, the file is written
Output ==
    /\ At("output")
    /\ Step(Footer(Reset(pdf)), ip + 1)
    /\ serialized' = serialized + 1
    /\ bars' = <<>>
    /\ UNCHANGED <<tableVars, loopVars, apVars, findVars>>

Next ==
    \/ LoadKeyError
    \/ GlanceKeyError
    \/ ComplianceKeyError
    \/ SnippetKeyError
    \/ PartitionKeyError
    \/ CardKeyError
    \/ AddPageStep
    \/ CoverBanner
    \/ CoverRow
    \/ Glance
    \/ Findings
    \/ CoverNote
    \/ H1
    \/ H2
    \/ H3
    \/ Body
    \/ KvRow
    \/ LevelRow
    \/ LnStep
    \/ SevLine
    \/ Divider
    \/ RecTitle
    \/ TableHeader
    \/ TableRow
    \/ ComplianceCard
    \/ ComplianceEnd
    \/ Snippet
    \/ SnippetEnd
    \/ Partition
    \/ PositiveHead
    \/ PositiveCard
    \/ NegativeHead
    \/ NegativeCard
    \/ Output

Spec == Init /\ [][Next]_vars

----------------------------------------------------------------------------
(* score_bar on its own: two calls in a row on a fresh first page, with    *)
(* any score of ScoreRange and either bar width.                           *)

InitBar ==
    /\ pdf = [page |-> 1, x |-> LMargin, y |-> TMargin, ev |-> <<>>]
    /\ section = "ScoreBar"
    /\ ip = 1
    /\ prevLast = 0
    /\ secFirst = 0
    /\ secLast = 0
    /\ visited = <<>>
    /\ nrows = 0
    /\ rowsDone = 0
    /\ thCells = 0
    /\ tdCells = 0
    /\ cardsDone = 0
    /\ snipsDone = 0
    /\ PATTERNS = <<>>
    /\ positives = <<>>
    /\ negatives = <<>>
    /\ apIdx = 0
    /\ apCards = <<>>
    /\ bars = <<>>
    /\ serialized = 0
    /\ failed = ""
    /\ styled = <<>>
    /\ counts = NoCounts
    /\ findings = <<>>
    /\ files = {}
    /\ dirs = {}
    /\ log = 0
    /\ cmds = 0
    /\ call = NoCall

ScoreBar ==
    /\ section = "ScoreBar"
    /\ Len(bars) < 2
    /\ \E score \in ScoreRange, width \in BarWidths :
          /\ bars # <<>> => width = bars[1].width
          /\ pdf' = Ln(score_bar(Reset(pdf), score, width, 10), 14)
          /\ bars' = Append(bars, BarRect(score, width))
    /\ UNCHANGED <<section, ip, prevLast, secFirst, secLast, visited, tableVars,
                   thCells, tdCells, loopVars, apVars, serialized, failed,
                   unitVars, findVars>>

NextBar == ScoreBar

SpecBar == InitBar /\ [][NextBar]_vars

----------------------------------------------------------------------------
(* The colour lookups on their own: severity_badge and the status lookup   *)
(* of the compliance cards, called with recognised and unrecognised        *)
(* values.                                                                 *)

C_MID       == <<51, 65, 85>>
C_LIGHT     == <<226, 232, 240>>
C_RED       == <<220, 38, 38>>
C_ORANGE    == <<234, 88, 12>>
C_YELLOW    == <<202, 138, 4>>
C_GREEN     == <<22, 163, 74>>
C_BADGE_RED == <<254, 226, 226>>
C_BADGE_YEL == <<254, 243, 199>>
C_BADGE_GRN == <<220, 252, 231>>

Severities == {"Critical", "High", "Medium", "Low"}
Statuses   == {"non_compliant", "at_risk", "compliant"}

\* SEVERITY_COLOR.get(sev, default)
SEVERITY_COLOR_get(sev, default) ==
    CASE sev = "Critical" -> C_RED
      [] sev = "High"     -> C_ORANGE
      [] sev = "Medium"   -> C_YELLOW
      [] sev = "Low"      -> C_GREEN
      [] OTHER            -> default

\* the bg of severity_badge: a chain of conditionals ending in the green tint
severity_bg(sev) ==
    IF sev = "Critical" THEN <<254, 226, 226>>
    ELSE IF sev = "High" THEN <<255, 237, 213>>
    ELSE IF sev = "Medium" THEN <<254, 249, 195>>
    ELSE <<220, 252, 231>>

\* severity_badge(sev): the colours handed to badge
severity_badge(sev) ==
    [of |-> "severity", value |-> sev, label |-> sev,
     fg |-> SEVERITY_COLOR_get(sev, C_MID), bg |-> severity_bg(sev)]

\* STATUS_COLOR.get(status, default)
STATUS_COLOR_get(status, default) ==
    CASE status = "non_compliant" -> <<C_RED, C_BADGE_RED, "Non-Compliant">>
      [] status = "at_risk"       -> <<C_ORANGE, C_BADGE_YEL, "At Risk">>
      [] status = "compliant"     -> <<C_GREEN, C_BADGE_GRN, "Compliant">>
      [] OTHER                    -> default

\* fg, bg, label = STATUS_COLOR.get(status, (C_MID, C_LIGHT, status))
status_style(status) ==
    LET t == STATUS_COLOR_get(status, <<C_MID, C_LIGHT, status>>)
    IN  [of |-> "status", value |-> status, label |-> t[3], fg |-> t[1], bg |-> t[2]]

MaxStyled == 2      \* lookups per run

\* values no table knows
Unknown == {"Info", "unknown"}

allVars == <<pdf, section, ip, prevLast, secFirst, secLast, visited, tableVars,
             thCells, tdCells, loopVars, apVars, bars, serialized, failed,
             findVars>>

InitStyle ==
    /\ pdf = [page |-> 1, x |-> LMargin, y |-> TMargin, ev |-> <<>>]
    /\ section = "Style"
    /\ ip = 1
    /\ prevLast = 0
    /\ secFirst = 0
    /\ secLast = 0
    /\ visited = <<>>
    /\ nrows = 0
    /\ rowsDone = 0
    /\ thCells = 0
    /\ tdCells = 0
    /\ cardsDone = 0
    /\ snipsDone = 0
    /\ PATTERNS = <<>>
    /\ positives = <<>>
    /\ negatives = <<>>
    /\ apIdx = 0
    /\ apCards = <<>>
    /\ bars = <<>>
    /\ serialized = 0
    /\ failed = ""
    /\ styled = <<>>
    /\ counts = NoCounts
    /\ findings = <<>>
    /\ files = {}
    /\ dirs = {}
    /\ log = 0
    /\ cmds = 0
    /\ call = NoCall

SeverityBadge ==
    /\ section = "Style"
    /\ Len(styled) < MaxStyled
    /\ \E sev \in Severities \cup Unknown :
          styled' = Append(styled, severity_badge(sev))
    /\ UNCHANGED <<allVars, srvVars>>

StatusStyle ==
    /\ section = "Style"
    /\ Len(styled) < MaxStyled
    /\ \E status \in Statuses \cup Unknown :
          styled' = Append(styled, status_style(status))
    /\ UNCHANGED <<allVars, srvVars>>

NextStyle == SeverityBadge \/ StatusStyle

SpecStyle == InitStyle /\ [][NextStyle]_vars

----------------------------------------------------------------------------
(* docker/kali/server.py: the tools write_file and manage_packages.  A     *)
(* path is the sequence of its components below the root; a filename is a  *)
(* sequence of components and a flag saying whether it starts with "/".    *)

SCRIPTS_DIR == <<"app", "scripts">>
LOGS_DIR    == <<"app", "logs">>

MaxCalls == 2       \* tool calls per run

Name(abs, parts) == [abs |-> abs, parts |-> parts]

\* filenames: plain, nested, empty, climbing with "..", and absolute
Filenames ==
    {Name(FALSE, <<"f">>), Name(FALSE, <<"d">>), Name(FALSE, <<"d", "f">>),
     Name(FALSE, <<>>), Name(FALSE, <<"..">>), Name(FALSE, <<"d", "..", "f">>),
     Name(FALSE, <<"..", "f">>), Name(FALSE, <<"..", "..", "etc", "f">>),
     Name(TRUE, <<"etc", "f">>), Name(TRUE, <<"app", "scripts", "f">>),
     Name(TRUE, <<>>)}

\* os.path.join(dir, filename): an absolute filename discards dir
Join(dir, fn) == IF fn.abs THEN fn.parts ELSE dir \o fn.parts

\* the directory or file a path names once the system has followed its ".."
RECURSIVE Resolve(_, _, _)
Resolve(parts, i, acc) ==
    IF i > Len(parts) THEN acc
    ELSE IF parts[i] = ".."
         THEN Resolve(parts, i + 1,
                      IF acc = <<>> THEN acc ELSE SubSeq(acc, 1, Len(acc) - 1))
         ELSE Resolve(parts, i + 1, Append(acc, parts[i]))

Real(parts) == Resolve(parts, 1, <<>>)

\* os.path.dirname(filepath)
Dirname(parts) == IF parts = <<>> THEN parts ELSE SubSeq(parts, 1, Len(parts) - 1)

\* the directories os.makedirs(d, exist_ok=True) walks through
Walked(d) == {Real(SubSeq(d, 1, k)) : k \in 0..Len(d)}

\* write_file(filename, content): the state of the call and of the disk
\* after it.  makedirs raises when a component of the directory is a file;
\* open raises when the path names a directory.
write_file(fn) ==
    LET filepath == Join(SCRIPTS_DIR, fn)
        walked   == Walked(Dirname(filepath))
        target   == Real(filepath)
        made     == dirs \cup walked
        c        == [NoCall EXCEPT !.n = call.n + 1, !.tool = "write_file", !.fn = fn]
    IN  IF walked \cap files # {}
        THEN [files |-> files, dirs |-> dirs, call |-> [c EXCEPT !.ret = "raise"]]
        ELSE IF fn.parts = <<>> \/ fn.parts[Len(fn.parts)] = ".." \/ target \in made
        THEN [files |-> files, dirs |-> made, call |-> [c EXCEPT !.ret = "raise"]]
        ELSE [files |-> files \cup {target}, dirs |-> made,
              call |-> [c EXCEPT !.ret = "File written", !.wrote = {target}]]

\* characters of a package name: of the class [a-z0-9-], and not
InClass(ch) == ch \in {"a", "0", "-"}

PackageNames ==
    {<<"a">>, <<"a", "-", "0">>, <<>>, <<";">>, <<"a", ";">>, <<"a", "\n">>,
     <<"\n">>, <<"a", "\n", "a">>}

\* PACKAGE_NAME_RE.match(package_name) for ^[a-z0-9\-]+$: $ matches at the end
\* of the string and also just before a newline that ends the string
PACKAGE_NAME_RE_match(name) ==
    \E n \in 1..Len(name) :
        /\ \A i \in 1..n : InClass(name[i])
        /\ \/ n = Len(name)
           \/ n = Len(name) - 1 /\ name[Len(name)] = "\n"

Actions == {"check", "install", "remove"}

\* what subprocess.run does for an install; whether shutil.which finds a name
Outcomes == {"ok", "nonzero", "timeout", "error"}

\* manage_packages(action, package_name): the call, with what it ran and
\* logged, and the words its return value starts with
manage_packages(action, name, outcome, found) ==
    LET c == [NoCall EXCEPT !.n = call.n + 1, !.tool = "manage_packages",
                            !.action = action, !.name = name]
    IN  IF ~PACKAGE_NAME_RE_match(name)
        THEN [c EXCEPT !.ret = "Error: Invalid package name"]
        ELSE IF action = "check"
        THEN [c EXCEPT !.ret = IF found THEN "INSTALLED" ELSE "MISSING"]
        ELSE IF action = "install"
        THEN [c EXCEPT !.ran = 1, !.logged = 1,
                       !.ret = CASE outcome = "ok"      -> "SUCCESS"
                                 [] outcome = "nonzero" -> "FAILED"
                                 [] outcome = "timeout" -> "Error: Installation timed out"
                                 [] OTHER               -> "Error installing package"]
        ELSE [c EXCEPT !.ret = "Error: Unknown action"]

InitServer ==
    /\ pdf = [page |-> 0, x |-> 0, y |-> 0, ev |-> <<>>]
    /\ section = "Server"
    /\ ip = 1
    /\ prevLast = 0
    /\ secFirst = 0
    /\ secLast = 0
    /\ visited = <<>>
    /\ nrows = 0
    /\ rowsDone = 0
    /\ thCells = 0
    /\ tdCells = 0
    /\ cardsDone = 0
    /\ snipsDone = 0
    /\ PATTERNS = <<>>
    /\ positives = <<>>
    /\ negatives = <<>>
    /\ apIdx = 0
    /\ apCards = <<>>
    /\ bars = <<>>
    /\ serialized = 0
    /\ failed = ""
    /\ styled = <<>>
    /\ counts = NoCounts
    /\ findings = <<>>
    /\ files = {}
    /\ dirs = {<<>>, <<"app">>, SCRIPTS_DIR}
    /\ log = 0
    /\ cmds = 0
    /\ call = NoCall

WriteFile ==
    /\ section = "Server"
    /\ call.n < MaxCalls
    /\ \E fn \in Filenames :
          LET r == write_file(fn)
          IN  /\ files' = r.files
              /\ dirs' = r.dirs
              /\ call' = r.call
    /\ UNCHANGED <<allVars, styled, log, cmds>>

ManagePackages ==
    /\ section = "Server"
    /\ call.n < MaxCalls
    /\ \E action \in Actions, name \in PackageNames, outcome \in Outcomes,
          found \in BOOLEAN :
          LET c == manage_packages(action, name, outcome, found)
          IN  /\ call' = c
              /\ cmds' = cmds + c.ran
              /\ log' = log + c.logged
    /\ UNCHANGED <<allVars, styled, files, dirs>>

NextServer == WriteFile \/ ManagePackages

SpecServer == InitServer /\ [][NextServer]_vars

----------------------------------------------------------------------------
(* Properties.                                                             *)

Ev == pdf.ev

\* the kinds of the atomic elements and of the cards among them
AtomicKinds == {"compliance", "positive", "negative", "code"}
CardKinds   == {"compliance", "positive", "negative"}

IsRect(e, kinds) == e.op = "rect" /\ e.k \in kinds

\* C1: every atomic element (compliance card, anti-pattern card, code
\* block) painted at y with height H ends at or above the bottom margin of
\* its page: y + H <= page height - bottom margin.
C1_NoSplit ==
    \A i \in DOMAIN Ev :
        IsRect(Ev[i], AtomicKinds) => Ev[i].y + Ev[i].h <= PageH - BMargin

\* C2: wherever an element builder leaves the cursor, it is at or above
\* the bottom margin: cursor.y <= page height - bottom margin.
C2_CursorInv ==
    \A i \in DOMAIN Ev :
        Ev[i].op = "cursor" => Ev[i].y <= PageH - BMargin

\* C3: the rectangle of every card is painted after the body was measured
\* and after the space check made with the card's total height, and it is
\* painted with that height.
C3_CardOrder ==
    \A i \in DOMAIN Ev :
        IsRect(Ev[i], CardKinds) =>
            \E m, c \in 1..(i - 1) :
                /\ m < c
                /\ Ev[m].op = "measure" /\ Ev[m].k = Ev[i].k
                /\ Ev[c].op = "check" /\ Ev[c].k = Ev[i].k
                /\ Ev[c].h = Ev[i].h

\* the body lines painted after the measurement at index m
BodyLinesAfter(m) ==
    Cardinality({j \in DOMAIN Ev : j > m /\ Ev[j].op = "line" /\ Ev[j].k = "ap_body"})

\* C4: the dry run of an anti-pattern body returns as many lines as are
\* painted for it.
C4_Parity ==
    \A m \in DOMAIN Ev :
        Ev[m].op = "measure" => Ev[m].h = BodyLinesAfter(m)

\* the page advances logged between the events at i and j
AdvancesBetween(i, j) ==
    Cardinality({l \in (i + 1)..(j - 1) : Ev[l].op = "add_page"})

\* C5: at every space check (code block, anti-pattern card), if the
\* required height is at most page height - bottom margin - cursor.y, the
\* element is painted on the same page at the cursor of the check; else
\* exactly one page advance happens between the check and the painting.
C5_EnsureSpace ==
    \A i \in DOMAIN Ev :
        Ev[i].op = "check" =>
            \E j \in DOMAIN Ev :
                /\ j > i
                /\ Ev[j].op = "rect" /\ Ev[j].k = Ev[i].k
                /\ IF Ev[i].h <= PageH - BMargin - Ev[i].y
                   THEN /\ AdvancesBetween(i, j) = 0
                        /\ Ev[j].page = Ev[i].page
                        /\ Ev[j].y = Ev[i].y
                   ELSE /\ AdvancesBetween(i, j) = 1
                        /\ Ev[j].page = Ev[i].page + 1

\* an anti-pattern card that did not fit and was moved to the next page
C5_Witness ==
    \E i \in DOMAIN Ev :
        /\ Ev[i].op = "check" /\ Ev[i].k \in {"positive", "negative"}
        /\ Ev[i].h > PageH - BMargin - Ev[i].y
        /\ \E j \in DOMAIN Ev : j > i /\ IsRect(Ev[j], {Ev[i].k})

IsPrefix(s, t) == Len(s) <= Len(t) /\ \A i \in 1..Len(s) : s[i] = t[i]

\* C6: the sections are visited in the fixed order, and the
\* first element of every section but Cover is painted on a later page than
\* the last element of the section before it.
C6_EverySectionNewPage ==
    /\ IsPrefix(visited, SectionOrder)
    /\ (section # "Cover" /\ secFirst # 0) => secFirst > prevLast

\* What the build script does about C6: the sections are visited in the
\* fixed order; the first element of every section but Cover and Policy is
\* painted on a later page than the last element of the section before it;
\* Policy starts on the page on which Overview ended.
C6_SectionPages ==
    /\ IsPrefix(visited, SectionOrder)
    /\ section = visited[Len(visited)]
    /\ secFirst # 0 =>
          IF section = "Cover" THEN secFirst = 1
          ELSE IF section = "Policy" THEN secFirst = prevLast
          ELSE secFirst > prevLast

\* the build went through every section and was written out
C6_Witness ==
    /\ visited = SectionOrder
    /\ section = "Done"
    /\ prevLast > 1
    /\ serialized = 1

\* C7: every page advance moves to the next page and leaves the cursor at
\* top margin + header height, and nothing painted on a page after the first
\* starts above the bottom edge of the header band.
C7_PageAdvance ==
    /\ \A i \in DOMAIN Ev :
          Ev[i].op = "add_page" =>
              /\ Ev[i].page = Ev[i].h + 1
              /\ Ev[i].page > 1 => Ev[i].y = TMargin + BandH
    /\ \A i \in DOMAIN Ev :
          (Ev[i].op \in PaintOps /\ Ev[i].k # "header" /\ Ev[i].page > 1)
              => Ev[i].y >= BandH

\* the data cells the last call painted
TdCells == {i \in DOMAIN Ev : Ev[i].op = "cell" /\ Ev[i].k = "td"}

\* the row loop of section 3 is over
TableOver ==
    \/ IndexOf(section) > IndexOf("ResultSummary")
    \/ section = "ResultSummary" /\ ip > 5

\* C8: the table header is painted once and every data row once, whatever
\* the number of rows; a data row is painted whole where it fits (its
\* five cells on one page at one height, above the bottom margin), and a
\* page break inside the table comes before the first cell of a row.
C8_Table ==
    /\ thCells <= 5
    /\ tdCells = 5 * rowsDone
    /\ rowsDone <= nrows
    /\ TableOver => thCells = 5 /\ tdCells = 5 * nrows
    /\ TdCells # {} =>
          /\ Cardinality(TdCells) = 5
          /\ \A i, j \in TdCells : Ev[i].page = Ev[j].page /\ Ev[i].y = Ev[j].y
          /\ \A i \in TdCells : Ev[i].y + Ev[i].h <= PageH - BMargin
          /\ \A a \in DOMAIN Ev :
                Ev[a].op = "add_page" => \A i \in TdCells : a < i

\* a row of the long table that did not fit and opened the next page
C8_Witness ==
    /\ nrows = MaxRows
    /\ TdCells # {}
    /\ \E a \in DOMAIN Ev : Ev[a].op = "add_page"

Clamp(v, lo, hi) == IF v < lo THEN lo ELSE IF v > hi THEN hi ELSE v

\* C9: the overlay of every score bar is (score / 100) * width wide,
\* clamped to [0, width] (widths are compared as hundredths).
C9_FillClamped ==
    \A i \in DOMAIN bars :
        bars[i].fill100 = Clamp(bars[i].score * bars[i].width, 0, 100 * bars[i].width)

\* C10: among bars of one width, a lower score in 0..100 never has the
\* wider fill; score 0 fills nothing, 100 the whole bar, 35 thirty-five
\* hundredths of it; the fill is red below 50, yellow from 50 below 70,
\* green from 70 on.
C10_ScoreBar ==
    \A i, j \in DOMAIN bars :
        LET a == bars[i]
            b == bars[j]
        IN  /\ (/\ a.score \in 0..100 /\ b.score \in 0..100
                /\ a.width = b.width /\ a.score < b.score)
                    => a.fill100 <= b.fill100
            /\ a.score = 0 => a.fill100 = 0
            /\ a.score = 100 => a.fill100 = 100 * a.width
            /\ a.score = 35 => a.fill100 = 35 * a.width
            /\ a.score < 50 => a.color = "C_RED"
            /\ (50 <= a.score /\ a.score < 70) => a.color = "C_YELLOW"
            /\ a.score >= 70 => a.color = "C_GREEN"

\* the two bars of the end-to-end scenario, scores 35 and 92
C10_Witness ==
    /\ Len(bars) = 2
    /\ bars[1].score = 35 /\ bars[1].color = "C_RED"
    /\ bars[2].score = 92 /\ bars[2].color = "C_GREEN"

\* the entries of the anti-pattern list that miss a key
Incomplete == {i \in DOMAIN PATTERNS : PATTERNS[i].has # AllKeys}

\* C11: the document is written at most once, and only after every section
\* was assembled without error; a build that raised for a missing key never
\* writes it; and a document is written only if no entry of the input
\* misses one of its keys.
C11_NoPartial ==
    /\ serialized <= 1
    /\ serialized = 1 => (visited = SectionOrder /\ section = "Done" /\ failed = "")
    /\ failed # "" => serialized = 0
    /\ serialized = 1 => Incomplete = {}

\* What the script does about C11: as above, but only the entries it draws
\* a card for (type positive or negative) must have all their keys.
C11_RenderedComplete ==
    /\ serialized <= 1
    /\ serialized = 1 => (visited = SectionOrder /\ section = "Done" /\ failed = "")
    /\ failed # "" => serialized = 0
    /\ serialized = 1 =>
          \A i \in Incomplete : PATTERNS[i].type \notin {"positive", "negative"}

\* the slate greys of the palette
Greys == {C_MID, C_LIGHT}

Recognised(r) ==
    IF r.of = "severity" THEN r.value \in Severities ELSE r.value \in Statuses

\* the backgrounds the recognised values of a lookup get
KnownBgs(r) ==
    IF r.of = "severity" THEN {severity_badge(v).bg : v \in Severities}
    ELSE {status_style(v).bg : v \in Statuses}

\* C12: every badge or card header of an unrecognised severity or status
\* has a grey foreground and a grey background, not the background of a
\* recognised value, and no error ends the run.
C12_NeutralFallback ==
    /\ failed = ""
    /\ \A i \in DOMAIN styled :
          ~Recognised(styled[i]) =>
              /\ styled[i].fg \in Greys
              /\ styled[i].bg \in Greys
              /\ styled[i].bg \notin KnownBgs(styled[i])

\* What the lookups do about C12: an unrecognised status gets the grey
\* pair (C_MID, C_LIGHT); an unrecognised severity gets the grey foreground
\* and the background of Low.
C12_FallbackAsCoded ==
    \A i \in DOMAIN styled :
        ~Recognised(styled[i]) =>
            /\ styled[i].fg = C_MID
            /\ styled[i].bg = IF styled[i].of = "status" THEN C_LIGHT
                              ELSE severity_badge("Low").bg

\* C13: of any two cards, the one painted first is not a negative card
\* followed by a positive one, and two cards of one group are painted in
\* the order of their entries in the input list.
C13_Ordering ==
    \A i, j \in DOMAIN apCards :
        i < j =>
            LET a == PATTERNS[apCards[i]]
                b == PATTERNS[apCards[j]]
            IN  /\ ~(a.type = "negative" /\ b.type = "positive")
                /\ a.type = b.type => a.id < b.id

\* a negative entry listed before a positive one, both painted
C13_Witness ==
    /\ Len(PATTERNS) = 2
    /\ PATTERNS[1].type = "negative" /\ PATTERNS[2].type = "positive"
    /\ apCards = <<2, 1>>
    /\ \E i \in DOMAIN Ev : IsRect(Ev[i], {"negative"})

\* the findings of a severity in the list section 4 renders
CountOf(sev) == Cardinality({i \in DOMAIN findings : findings[i] = sev})

Inside(path) == Len(path) > Len(SCRIPTS_DIR) /\ SubSeq(path, 1, Len(SCRIPTS_DIR)) = SCRIPTS_DIR

\* C15: every file write_file has created, overwritten or made executable
\* lies inside /app/scripts/.
C15_Confined == \A f \in files : Inside(f)

\* the name is made of characters of the class only, and of one at least
AllInClass(name) == name # <<>> /\ \A i \in DOMAIN name : InClass(name[i])

\* the return values that report an error
ErrorStrings ==
    {"Error: Invalid package name", "Error: Unknown action",
     "Error: Installation timed out", "Error installing package"}

\* C19: a call of manage_packages whose name is not made of [a-z0-9-] only,
\* or whose action is neither check nor install, returns an error string,
\* runs no command and appends nothing to the install log; an install with
\* a valid name appends to the log once and returns a string.
C19_Gating ==
    call.tool = "manage_packages" =>
        /\ (~AllInClass(call.name) \/ call.action \notin {"check", "install"})
              => (call.ret \in ErrorStrings /\ call.ran = 0 /\ call.logged = 0)
        /\ (AllInClass(call.name) /\ call.action = "install")
              => (call.logged = 1 /\ call.ret # "raise")

\* What manage_packages does about C19: the gate is the match of
\* PACKAGE_NAME_RE, which also lets through a name that ends with one newline.
C19_GatingAsCoded ==
    call.tool = "manage_packages" =>
        /\ (~PACKAGE_NAME_RE_match(call.name) \/ call.action \notin {"check", "install"})
              => (call.ret \in ErrorStrings /\ call.ran = 0 /\ call.logged = 0)
        /\ (PACKAGE_NAME_RE_match(call.name) /\ call.action = "install")
              => (call.logged = 1 /\ call.ran = 1 /\ call.ret # "raise")

\* the code lines the last call painted
CodeLineCells == {l \in DOMAIN Ev : Ev[l].op = "cell" /\ Ev[l].k = "code_line"}

\* C16: the height code_block checks is line count * 4.5 mm + 2 * 4 mm; the
\* background is painted after the check with that height; and no page
\* advance lies between the background and the last code line.
C16_CodeOrder ==
    \A i \in DOMAIN Ev :
        (Ev[i].op = "check" /\ Ev[i].k = "code") =>
            /\ Ev[i].h = Cardinality(CodeLineCells) * 9 + 2 * 8
            /\ \E j \in DOMAIN Ev :
                  /\ j > i
                  /\ IsRect(Ev[j], {"code"})
                  /\ Ev[j].h = Ev[i].h
                  /\ \A a \in DOMAIN Ev :
                        (Ev[a].op = "add_page" /\ a > j)
                            => \A l \in CodeLineCells : l < a

\* the title and body lines of the anti-pattern card the last call painted
CardTexts ==
    {l \in DOMAIN Ev : (Ev[l].op = "cell" /\ Ev[l].k = "ap_title")
                      \/ (Ev[l].op = "line" /\ Ev[l].k = "ap_body")}

BodyLines == {l \in DOMAIN Ev : Ev[l].op = "line" /\ Ev[l].k = "ap_body"}

\* C17: the rectangle of an anti-pattern card is 7 + measured lines * 5.5
\* + 4 mm high; the body, which starts 7.5 mm below the top of the card,
\* ends inside it with the lines that were painted (y0 + 7.5 + painted
\* lines * 5.5 <= y0 + card_h); and the title and the body lines painted on
\* the card's page lie between the top and the bottom of the rectangle.
C17_Containment ==
    \A r \in DOMAIN Ev :
        IsRect(Ev[r], {"positive", "negative"}) =>
            LET y0     == Ev[r].y
                card_h == Ev[r].h
            IN  /\ \E m \in 1..(r - 1) :
                      Ev[m].op = "measure" /\ card_h = 14 + Ev[m].h * 11 + 8
                /\ y0 + 15 + Cardinality(BodyLines) * 11 <= y0 + card_h
                /\ \A l \in CardTexts :
                      /\ l > r
                      /\ Ev[l].page = Ev[r].page
                            => (Ev[l].y >= y0 /\ Ev[l].y + Ev[l].h <= y0 + card_h)

\* a card whose body was painted in fewer lines than were measured
C17_Witness ==
    \E r, m \in DOMAIN Ev :
        /\ IsRect(Ev[r], {"positive", "negative"})
        /\ Ev[m].op = "measure"
        /\ BodyLines # {}
        /\ Cardinality(BodyLines) < Ev[m].h

\* C18: when section 7 is over, every entry of the input list has exactly
\* one card: the cards painted are as many as the entries, and each entry
\* has one.
C18_Complete ==
    section = "Done" =>
        /\ Len(apCards) = Len(PATTERNS)
        /\ \A i \in DOMAIN PATTERNS :
              Cardinality({j \in DOMAIN apCards : apCards[j] = i}) = 1

\* What the script does about C18: the entries of type positive or negative
\* have exactly one card each, the entries of any other type have none.
C18_KnownTypesOnly ==
    section = "Done" =>
        \A i \in DOMAIN PATTERNS :
            Cardinality({j \in DOMAIN apCards : apCards[j] = i})
                = IF PATTERNS[i].type \in {"positive", "negative"} THEN 1 ELSE 0

====
